---- MODULE Spec2Model ----
(***************************************************************************)
(* Model of the trajectory predictor of src/utils/BallPhysics.ts (first    *)
(* copy, lines 1-326): getPredictedPath and checkWallCollisions, the       *)
(* utilities getBouncePoints and getSmoothedTrajectory, and the HomeScreen *)
(* of src/app/(tabs)/index.tsx fed by the gestures of CueStick.tsx.        *)
(* Spec runs one call of getPredictedPath step by step; SpecWall, SpecPost *)
(* and SpecHome exercise the other three components.                       *)
(*                                                                         *)
(* JavaScript numbers are modelled as records [k, v]:                      *)
(*   [k |-> "fin", v |-> n]   the finite value n / Scale (fixed point),    *)
(*   [k |-> "inf", v |-> 1]   +Infinity,  [k |-> "inf", v |-> -1] -Infinity*)
(*   [k |-> "nan", v |-> 0]   NaN.                                         *)
(* Finite arithmetic is fixed point in units of 10^-5, products rounded to  *)
(* the nearest unit (ties away from zero)      ; the special values follow *)
(* IEEE 754 as JavaScript does.                                            *)
(***************************************************************************)
EXTENDS Integers, Sequences, FiniteSets

Scale == 100 * 1000

\* ------------------------------------------------------------ numbers
Fin(n) == [k |-> "fin", v |-> n]
NaN == [k |-> "nan", v |-> 0]
PInf == [k |-> "inf", v |-> 1]
NInf == [k |-> "inf", v |-> -1]

IsNaN(a) == a.k = "nan"
\* isFinite(a) of JavaScript
IsFiniteNum(a) == a.k = "fin"

Sgn(n) == IF n > 0 THEN 1 ELSE IF n < 0 THEN -1 ELSE 0
AbsInt(n) == IF n < 0 THEN -n ELSE n

\* unary minus
Neg(a) == IF a.k = "nan" THEN NaN ELSE [k |-> a.k, v |-> -a.v]
\* Math.abs
MathAbs(a) == IF a.k = "nan" THEN NaN ELSE [k |-> a.k, v |-> AbsInt(a.v)]
\* a + b
Add(a, b) ==
  IF a.k = "nan" \/ b.k = "nan" THEN NaN
  ELSE IF a.k = "inf" /\ b.k = "inf" THEN (IF a.v = b.v THEN a ELSE NaN)
  ELSE IF a.k = "inf" THEN a
  ELSE IF b.k = "inf" THEN b
  ELSE Fin(a.v + b.v)
\* a - b
Sub(a, b) == Add(a, Neg(b))
\* |a| * |b| / Scale for naturals a, b, rounded to the nearest integer (ties
\* up), computed in parts so that no intermediate product leaves 32 bits:
\* a = aw * Scale + af and b = bh * 1000 + bl give
\* a * b = aw * b * Scale + (af * bh \div 100) * Scale
\*         + ((af * bh) % 100) * 1000 + af * bl.
MulNat(a, b) ==
  LET aw == a \div Scale
      af == a % Scale
      bh == b \div 1000
      bl == b % 1000
  IN  aw * b + ((af * bh) \div 100)
      + ((2 * (((af * bh) % 100) * 1000 + af * bl) + Scale) \div (2 * Scale))
\* a * b
Mul(a, b) ==
  IF a.k = "nan" \/ b.k = "nan" THEN NaN
  ELSE IF a.k = "inf" \/ b.k = "inf"
       THEN (IF Sgn(a.v) * Sgn(b.v) = 0 THEN NaN
             ELSE [k |-> "inf", v |-> Sgn(a.v) * Sgn(b.v)])
  ELSE Fin(Sgn(a.v) * Sgn(b.v) * MulNat(AbsInt(a.v), AbsInt(b.v)))
\* a < b (false when either is NaN)
Lt(a, b) ==
  IF a.k = "nan" \/ b.k = "nan" THEN FALSE
  ELSE IF a.k = "inf" THEN a.v = -1 /\ ~(b.k = "inf" /\ b.v = -1)
  ELSE IF b.k = "inf" THEN b.v = 1
  ELSE a.v < b.v
\* a <= b (false when either is NaN)
Le(a, b) == ~IsNaN(a) /\ ~IsNaN(b) /\ (a = b \/ Lt(a, b))
\* a >= b
Ge(a, b) == Le(b, a)
Zero == Fin(0)
\* the whole number n
Whole(n) == Fin(n * Scale)

\* ------------------------------------------------------------ trigonometry
\* Math.cos / Math.sin of (deg * Math.PI) / 180 for deg a multiple of 45 in
\* [0, 360), in units of 10^-5.
CosTable == <<100000, 70711, 0, -70711, -100000, -70711, 0, 70711>>
SinTable == <<0, 70711, 100000, 70711, 0, -70711, -100000, -70711>>
\* The sign of the double that Math.cos / Math.sin returns there: the doubles
\* nearest to pi/2, pi, 3pi/2 are not the exact angles, so cos(90 deg) is
\* 6.1e-17, sin(180 deg) is 1.2e-16 and cos(270 deg) is -1.8e-16; only sin(0)
\* is exactly 0. The residue is far below the fixed-point grid, but it decides
\* the sign of a product with Infinity.
CosSign == <<1, 1, 1, -1, -1, -1, -1, 1>>
SinSign == <<0, 1, 1, 1, 1, -1, -1, -1>>
Octant(angle) == (((angle.v \div Scale) \div 45) % 8) + 1

\* Math.cos(angleInRadians) * force, Math.sin(angleInRadians) * force
TrigTimes(table, sign, angle, force) ==
  IF force.k = "nan" THEN NaN
  ELSE IF force.k = "inf"
       THEN (IF sign[Octant(angle)] = 0 THEN NaN
             ELSE [k |-> "inf", v |-> sign[Octant(angle)] * force.v])
  ELSE Mul(Fin(table[Octant(angle)]), force)

\* ------------------------------------------------------------ DEFAULT_CONFIG
\* All lengths, speeds and factors are in units of 10^-5 (Scale).
ballRadius == 800000
\* mutant of friction: no friction
friction_None == Scale
friction == 98500
minVelocity == 30000
timeStep == 8000
maxPoints == 300
velocityScale == 15000
\* the factor a bounce keeps of the velocity (0.92)
bounceEnergyLoss == 92000

\* ------------------------------------------------------------ checkWallCollisions
\* The x half of checkWallCollisions: left wall, else right wall.
HitsLeft(nextPos, radius) == Le(Sub(nextPos.x, radius), Zero)
HitsRight(nextPos, tableWidth, radius) ==
  ~HitsLeft(nextPos, radius) /\ Ge(Add(nextPos.x, radius), tableWidth)
\* The y half: top wall, else bottom wall.
HitsTop(nextPos, radius) == Le(Sub(nextPos.y, radius), Zero)
HitsBottom(nextPos, tableHeight, radius) ==
  ~HitsTop(nextPos, radius) /\ Ge(Add(nextPos.y, radius), tableHeight)

\* mutant of checkWallCollisions: the top and bottom tests chained behind the
\* left and right ones, so that a corner contact resolves the x axis only
checkWallCollisions_FirstWallOnly(currentPos, nextPos, velocity, tableWidth, tableHeight, radius) ==
  LET left   == HitsLeft(nextPos, radius)
      right  == HitsRight(nextPos, tableWidth, radius)
      top    == ~left /\ ~right /\ HitsTop(nextPos, radius)
      bottom == ~left /\ ~right /\ HitsBottom(nextPos, tableHeight, radius)
  IN [hasCollision |-> left \/ right \/ top \/ bottom,
      collisionPoint |->
        [x |-> IF left THEN radius
               ELSE IF right THEN Sub(tableWidth, radius) ELSE nextPos.x,
         y |-> IF top THEN radius
               ELSE IF bottom THEN Sub(tableHeight, radius) ELSE nextPos.y],
      newVelocity |->
        [vx |-> IF left THEN MathAbs(velocity.vx)
                ELSE IF right THEN Neg(MathAbs(velocity.vx)) ELSE velocity.vx,
         vy |-> IF top THEN MathAbs(velocity.vy)
                ELSE IF bottom THEN Neg(MathAbs(velocity.vy)) ELSE velocity.vy]]

checkWallCollisions(currentPos, nextPos, velocity, tableWidth, tableHeight, radius) ==
  [hasCollision |->
      \/ HitsLeft(nextPos, radius)
      \/ HitsRight(nextPos, tableWidth, radius)
      \/ HitsTop(nextPos, radius)
      \/ HitsBottom(nextPos, tableHeight, radius),
   collisionPoint |->
      [x |-> IF HitsLeft(nextPos, radius) THEN radius
             ELSE IF HitsRight(nextPos, tableWidth, radius)
                  THEN Sub(tableWidth, radius)
             ELSE nextPos.x,
       y |-> IF HitsTop(nextPos, radius) THEN radius
             ELSE IF HitsBottom(nextPos, tableHeight, radius)
                  THEN Sub(tableHeight, radius)
             ELSE nextPos.y],
   newVelocity |->
      [vx |-> IF HitsLeft(nextPos, radius) THEN MathAbs(velocity.vx)
              ELSE IF HitsRight(nextPos, tableWidth, radius)
                   THEN Neg(MathAbs(velocity.vx))
              ELSE velocity.vx,
       vy |-> IF HitsTop(nextPos, radius) THEN MathAbs(velocity.vy)
              ELSE IF HitsBottom(nextPos, tableHeight, radius)
                   THEN Neg(MathAbs(velocity.vy))
              ELSE velocity.vy]]

\* ------------------------------------------------------------ getPredictedPath
\* mutant of Invalid: the force test written as force < 0
Invalid_StrictForce(force, angleInDegrees) ==
  Lt(force, Zero) \/ ~IsFiniteNum(angleInDegrees)
\* force <= 0 || !isFinite(angleInDegrees)
Invalid(force, angleInDegrees) ==
  Le(force, Zero) \/ ~IsFiniteNum(angleInDegrees)

\* Math.cos(angleInRadians) * force * config.velocityScale
InitialVx(angle, force) ==
  Mul(TrigTimes(CosTable, CosSign, angle, force), Fin(velocityScale))
\* Math.sin(angleInRadians) * force * config.velocityScale
InitialVy(angle, force) ==
  Mul(TrigTimes(SinTable, SinSign, angle, force), Fin(velocityScale))

\* mutant of SpeedBelow: the limit taken ten times too small
SpeedBelow_TenthLimit(ax, ay, limit) ==
  /\ ax.k = "fin" /\ ay.k = "fin"
  /\ AbsInt(ax.v) < limit \div 10 /\ AbsInt(ay.v) < limit \div 10
  /\ ax.v * ax.v + ay.v * ay.v < (limit \div 10) * (limit \div 10)
\* Math.sqrt(vx * vx + vy * vy) < limit, for limit > 0. With both components
\* finite the roots are compared through the squares; a component of at least
\* limit in magnitude settles it without squaring. A NaN or infinite component
\* makes the root NaN or Infinity, never below limit.
SpeedBelow(ax, ay, limit) ==
  /\ ax.k = "fin" /\ ay.k = "fin"
  /\ AbsInt(ax.v) < limit /\ AbsInt(ay.v) < limit
  /\ ax.v * ax.v + ay.v * ay.v < limit * limit

\* mutant of LoopCondition: the point cap left out
LoopCondition_NoCap(b, budget, p) == b < budget
\* bounces < maxBounces && path.length < config.maxPoints
LoopCondition(b, budget, p) == b < budget /\ Len(p) < maxPoints

\* ------------------------------------------------------------ requests
\* Bounds of the inputs the model draws.
\* finite angles are 0, 45, ..., 45 * MaxAngleIdx degrees
MaxAngleIdx == 4
\* maxBounces is drawn from 0 .. MaxBounceBudget and the caller's value
MaxBounceBudget == 2
\* HomeScreen.handleShotChange passes maxBounces: 8
AppMaxBounces == 8

Specials == {NaN, PInf, NInf}
\* CUE_BALL_POSITION of the 300 x 150 table: (0.25 w, 0.5 h)
CueBallSpot == [x |-> Whole(75), y |-> Whole(75)]
\* launch origins: the cue ball spot, a point on the left clamp line, one on
\* the right clamp line, one on the top clamp line, and the bottom-right
\* clamp corner
Origins ==
  { CueBallSpot,
    [x |-> Whole(8), y |-> Whole(75)],
    [x |-> Whole(292), y |-> Whole(75)],
    [x |-> Whole(75), y |-> Whole(8)],
    [x |-> Whole(292), y |-> Whole(142)] }
FiniteAngles == { Whole(45 * i) : i \in 0..MaxAngleIdx }
Angles == FiniteAngles \cup Specials
FiniteForces == { Whole(-10), Whole(0), Whole(2), Whole(50), Whole(300) }
\* the minimum playing surface of the screen (TABLE_WIDTH x TABLE_HEIGHT)
Tables == { [w |-> Whole(300), h |-> Whole(150)] }
Budgets == (0..MaxBounceBudget) \cup {AppMaxBounces}

\* Every finite force from every origin at every angle; the non-finite forces
\* from the cue ball spot.
Requests ==
  [origin : Origins, angleInDegrees : Angles, force : FiniteForces,
   table : Tables, maxBounces : Budgets]
  \cup
  [origin : {CueBallSpot}, angleInDegrees : Angles, force : Specials,
   table : Tables, maxBounces : Budgets]

\* ------------------------------------------------------------ state
VARIABLES
  req,       \* the PredictedPathParams of the call
  pc,        \* "start" (at the validation), "loop" (at the while), "done" (returned)
  path,      \* path: Point[]
  vx, vy,    \* the velocity
  currentX, currentY,
  bounces,
  hits,      \* history: hits[i] iff path[i] was pushed by an iteration that collided
  iters,     \* history: iterations of the while loop executed so far
  exit       \* history: how the call left: "none", "invalid", "condition", "break"

VARIABLES
  wall,      \* a call of checkWallCollisions: its argument objects and its result
  post,      \* a call of a post-processing utility: its arguments and its result
  home       \* HomeScreen: its React state and the gesture that feeds it

\* the variables of the components a specification does not exercise
others == <<wall, post, home>>
NoWallCall == [kind |-> "none"]
NoPostCall == [kind |-> "none"]
NoHome == [kind |-> "none"]

vars == <<req, pc, path, vx, vy, currentX, currentY, bounces, hits, iters, exit,
          wall, post, home>>

Init ==
  /\ req \in Requests
  /\ pc = "start"
  /\ path = <<>>
  /\ vx = Zero /\ vy = Zero
  /\ currentX = Zero /\ currentY = Zero
  /\ bounces = 0
  /\ hits = <<>>
  /\ iters = 0
  /\ exit = "none"
  /\ wall = NoWallCall /\ post = NoPostCall /\ home = NoHome

\* lines 48-50: the early return
Reject ==
  /\ pc = "start"
  /\ Invalid(req.force, req.angleInDegrees)
  /\ pc' = "done"
  /\ exit' = "invalid"
  /\ UNCHANGED <<req, path, vx, vy, currentX, currentY, bounces, hits, iters>>
  /\ UNCHANGED others

\* mutant of Launch: the starting position is not pushed
Launch_NoStartPoint ==
  /\ pc = "start"
  /\ ~Invalid(req.force, req.angleInDegrees)
  /\ vx' = InitialVx(req.angleInDegrees, req.force)
  /\ vy' = InitialVy(req.angleInDegrees, req.force)
  /\ currentX' = req.origin.x
  /\ currentY' = req.origin.y
  /\ bounces' = 0
  /\ path' = <<>>
  /\ hits' = <<>>
  /\ pc' = "loop"
  /\ UNCHANGED <<req, iters, exit>>
  /\ UNCHANGED others

\* lines 52-66: initial velocity, position, and the starting point
Launch ==
  /\ pc = "start"
  /\ ~Invalid(req.force, req.angleInDegrees)
  /\ vx' = InitialVx(req.angleInDegrees, req.force)
  /\ vy' = InitialVy(req.angleInDegrees, req.force)
  /\ currentX' = req.origin.x
  /\ currentY' = req.origin.y
  /\ bounces' = 0
  /\ path' = <<[x |-> req.origin.x, y |-> req.origin.y]>>
  /\ hits' = <<FALSE>>
  /\ pc' = "loop"
  /\ UNCHANGED <<req, iters, exit>>
  /\ UNCHANGED others

\* lines 71-82: the proposed position and its collision check
Collision ==
  checkWallCollisions([x |-> currentX, y |-> currentY],
                      [x |-> Add(currentX, Mul(vx, Fin(timeStep))),
                       y |-> Add(currentY, Mul(vy, Fin(timeStep)))],
                      [vx |-> vx, vy |-> vy],
                      req.table.w, req.table.h, Fin(ballRadius))
\* lines 84-103: position after the branch
StepX == Collision.collisionPoint.x
StepY == Collision.collisionPoint.y
\* mutant of Restitution: the bounce loss applied in every iteration
Restitution_Always(v, collided) == Mul(v, Fin(bounceEnergyLoss))
\* lines 84-107: velocity after the branch and the friction
Restitution(v, collided) == IF collided THEN Mul(v, Fin(bounceEnergyLoss)) ELSE v
StepVx == Mul(Restitution(Collision.newVelocity.vx, Collision.hasCollision), Fin(friction))
StepVy == Mul(Restitution(Collision.newVelocity.vy, Collision.hasCollision), Fin(friction))
\* mutant of StepBounces: one bounce counted per wall touched
StepBounces_PerWall ==
  bounces
  + (IF Collision.collisionPoint.x # Add(currentX, Mul(vx, Fin(timeStep))) THEN 1 ELSE 0)
  + (IF Collision.collisionPoint.y # Add(currentY, Mul(vy, Fin(timeStep))) THEN 1 ELSE 0)
\* line 98: bounces++ in the collision branch
StepBounces == IF Collision.hasCollision THEN bounces + 1 ELSE bounces

\* mutant of IterateBreak: the position is pushed before the speed test
IterateBreak_PushFirst ==
  /\ pc = "loop"
  /\ LoopCondition(bounces, req.maxBounces, path)
  /\ SpeedBelow(StepVx, StepVy, minVelocity)
  /\ currentX' = StepX /\ currentY' = StepY
  /\ vx' = StepVx /\ vy' = StepVy
  /\ bounces' = StepBounces
  /\ iters' = iters + 1
  /\ pc' = "done"
  /\ exit' = "break"
  /\ path' = Append(path, [x |-> StepX, y |-> StepY])
  /\ hits' = Append(hits, Collision.hasCollision)
  /\ UNCHANGED <<req>>
  /\ UNCHANGED others

\* one iteration of the while loop that ends at the break of line 112
IterateBreak ==
  /\ pc = "loop"
  /\ LoopCondition(bounces, req.maxBounces, path)
  /\ SpeedBelow(StepVx, StepVy, minVelocity)
  /\ currentX' = StepX /\ currentY' = StepY
  /\ vx' = StepVx /\ vy' = StepVy
  /\ bounces' = StepBounces
  /\ iters' = iters + 1
  /\ pc' = "done"
  /\ exit' = "break"
  /\ UNCHANGED <<req, path, hits>>
  /\ UNCHANGED others

\* mutant of IteratePush: a colliding iteration goes on to the next one
\* without pushing its contact point
IteratePush_SkipContact ==
  /\ pc = "loop"
  /\ LoopCondition(bounces, req.maxBounces, path)
  /\ ~SpeedBelow(StepVx, StepVy, minVelocity)
  /\ currentX' = StepX /\ currentY' = StepY
  /\ vx' = StepVx /\ vy' = StepVy
  /\ bounces' = StepBounces
  /\ iters' = iters + 1
  /\ path' = IF Collision.hasCollision THEN path
             ELSE Append(path, [x |-> StepX, y |-> StepY])
  /\ hits' = IF Collision.hasCollision THEN hits
             ELSE Append(hits, FALSE)
  /\ UNCHANGED <<req, pc, exit>>
  /\ UNCHANGED others

\* one iteration of the while loop that ends at the push of line 116
IteratePush ==
  /\ pc = "loop"
  /\ LoopCondition(bounces, req.maxBounces, path)
  /\ ~SpeedBelow(StepVx, StepVy, minVelocity)
  /\ currentX' = StepX /\ currentY' = StepY
  /\ vx' = StepVx /\ vy' = StepVy
  /\ bounces' = StepBounces
  /\ iters' = iters + 1
  /\ path' = Append(path, [x |-> StepX, y |-> StepY])
  /\ hits' = Append(hits, Collision.hasCollision)
  /\ UNCHANGED <<req, pc, exit>>
  /\ UNCHANGED others

\* the while condition fails: line 119
LoopExit ==
  /\ pc = "loop"
  /\ ~LoopCondition(bounces, req.maxBounces, path)
  /\ pc' = "done"
  /\ exit' = "condition"
  /\ UNCHANGED <<req, path, vx, vy, currentX, currentY, bounces, hits, iters>>
  /\ UNCHANGED others

Next == Reject \/ Launch \/ IterateBreak \/ IteratePush \/ LoopExit

Spec == Init /\ [][Next]_vars

\* ------------------------------------------------------------ checkWallCollisions, called on its own
\* no call of getPredictedPath is in progress
NoSimulation ==
  /\ req = [origin |-> CueBallSpot, angleInDegrees |-> Zero, force |-> Zero,
            table |-> [w |-> Whole(300), h |-> Whole(150)], maxBounces |-> 0]
  /\ pc = "idle"
  /\ path = <<>>
  /\ vx = Zero /\ vy = Zero
  /\ currentX = Zero /\ currentY = Zero
  /\ bounces = 0
  /\ hits = <<>>
  /\ iters = 0
  /\ exit = "none"
simulation == <<req, pc, path, vx, vy, currentX, currentY, bounces, hits, iters, exit>>

\* proposed coordinates: outside, on and next to each clamp line, inside, and
\* the non-finite values
WallXs ==
  { Whole(-5), Whole(0), Whole(8), Fin(8 * Scale + 1), Whole(150),
    Fin(292 * Scale - 1), Whole(292), Whole(310), NaN, PInf, NInf }
WallYs ==
  { Whole(-5), Whole(8), Fin(8 * Scale + 1), Whole(75), Whole(142),
    Whole(160), NaN }
WallSpeeds == { Whole(-3), Zero, Whole(3), NaN, PInf }
\* the surface of the screen, and one narrower than the ball
WallWidths == { Whole(300), Whole(10) }
WallCalls ==
  [kind : {"call"},
   currentPos : {CueBallSpot},
   nextPos : [x : WallXs, y : WallYs],
   velocity : [vx : WallSpeeds, vy : WallSpeeds],
   tableWidth : WallWidths,
   tableHeight : {Whole(150)},
   ballRadius : {Fin(ballRadius)},
   result : {<<>>}]

InitWall ==
  /\ NoSimulation
  /\ wall \in WallCalls
  /\ post = NoPostCall /\ home = NoHome

\* mutant of CheckWall: the result objects are the argument objects themselves
\* (no spread copies), so the clamp and the reflection are written into them
CheckWall_InPlace ==
  /\ wall.result = <<>>
  /\ LET r == checkWallCollisions(wall.currentPos, wall.nextPos, wall.velocity,
                                  wall.tableWidth, wall.tableHeight, wall.ballRadius)
     IN wall' = [wall EXCEPT !.result = <<r>>,
                             !.nextPos = r.collisionPoint,
                             !.velocity = r.newVelocity]
  /\ UNCHANGED <<simulation, post, home>>

\* lines 125-168: the call works on spread copies of nextPos and velocity and
\* returns them; the argument objects keep their fields
CheckWall ==
  /\ wall.result = <<>>
  /\ wall' = [wall EXCEPT !.result =
       <<checkWallCollisions(wall.currentPos, wall.nextPos, wall.velocity,
                             wall.tableWidth, wall.tableHeight, wall.ballRadius)>>]
  /\ UNCHANGED <<simulation, post, home>>

NextWall == CheckWall

SpecWall == InitWall /\ [][NextWall]_vars

\* ------------------------------------------------------------ Math.atan2, Math.sqrt
\* Math.atan2 by CORDIC vectoring: CordicSteps + 1 rotations by atan(2^-i),
\* whose angles CordicTable gives in units of 10^-7 degree.
CordicSteps == 27
CordicTable ==
  << 450000000, 265650512, 140362435, 71250163, 35763344, 17899106, 8951737,
     4476142, 2238105, 1119057, 559529, 279765, 139882, 69941, 34971, 17485,
     8743, 4371, 2186, 1093, 546, 273, 137, 68, 34, 17, 9, 4 >>
RECURSIVE Gcd(_, _)
Gcd(a, b) == IF b = 0 THEN a ELSE Gcd(b, a % b)
RECURSIVE Cordic(_, _, _, _)
Cordic(x, y, z, i) ==
  IF i > CordicSteps THEN z
  ELSE IF y > 0
       THEN Cordic(x + (y \div 2^i), y - (x \div 2^i), z + CordicTable[i + 1], i + 1)
       ELSE Cordic(x - (y \div 2^i), y + (x \div 2^i), z - CordicTable[i + 1], i + 1)
\* atan(b / a) in degrees (fixed point) for a > 0, b > 0, a # b: the vector is
\* reduced by its gcd and stretched to 27 bits before the rotations
AtanDeg(a, b) ==
  LET g == Gcd(a, b)
      m == IF a > b THEN a \div g ELSE b \div g
      k == IF 2^27 \div m < 1 THEN 1 ELSE 2^27 \div m
  IN (Cordic((a \div g) * k, (b \div g) * k, 0, 0) + 50) \div 100
\* Math.atan2(deltaY, deltaX) * 180 / Math.PI. The axes and the diagonals are
\* exact, as they are in floating point; atan2(0, 0) is 0.
Atan2Deg(deltaY, deltaX) ==
  IF IsNaN(deltaY) \/ IsNaN(deltaX) THEN NaN
  ELSE IF deltaY.k = "inf" \/ deltaX.k = "inf"
  THEN LET upper == IF deltaY.k = "fin"
                    THEN (IF deltaX.v > 0 THEN 0 ELSE 180)
                    ELSE IF deltaX.k = "fin" THEN 90
                    ELSE IF deltaX.v > 0 THEN 45 ELSE 135
       IN Whole(IF deltaY.v < 0 THEN -upper ELSE upper)
  ELSE LET dx == deltaX.v
           dy == deltaY.v
           ax == AbsInt(dx)
           ay == AbsInt(dy)
           first == IF ay = 0 THEN 0
                    ELSE IF ax = 0 THEN 90 * Scale
                    ELSE IF ax = ay THEN 45 * Scale
                    ELSE AtanDeg(ax, ay)
           upper == IF dx < 0 THEN 180 * Scale - first ELSE first
       IN Fin(IF dy < 0 THEN -upper ELSE upper)

\* the limbs of the exact squares: a number below 4.6 * 10^8 is ah * Limb + al
Limb == 10 * 1000
\* a * a as <<hi, lo>>, hi * Limb^2 + lo with lo < Limb^2
Square(a) ==
  LET ah == a \div Limb
      al == a % Limb
      mid == 2 * ah * al
      low == (mid % Limb) * Limb + al * al
  IN << ah * ah + (mid \div Limb) + (low \div (Limb * Limb)), low % (Limb * Limb) >>
SumOfSquares(a, b) ==
  LET p == Square(a)
      q == Square(b)
  IN << p[1] + q[1] + ((p[2] + q[2]) \div (Limb * Limb)), (p[2] + q[2]) % (Limb * Limb) >>
WideGe(p, q) == p[1] > q[1] \/ (p[1] = q[1] /\ p[2] >= q[2])

\* ------------------------------------------------------------ the utilities
\* lines 173-181
calculateAngleBetweenPoints(point1, point2) ==
  Atan2Deg(Sub(point2.y, point1.y), Sub(point2.x, point1.x))

\* calculateDistance(point1, point2) >= limit (lines 186-190 and 248), the
\* square root taken out of the comparison
DistanceAtLeast(point1, point2, limit) ==
  LET deltaX == Sub(point2.x, point1.x)
      deltaY == Sub(point2.y, point1.y)
  IN IF IsNaN(deltaX) \/ IsNaN(deltaY) \/ IsNaN(limit) THEN FALSE
     ELSE IF deltaX.k = "inf" \/ deltaY.k = "inf" THEN TRUE
     ELSE IF limit.k = "inf" THEN limit.v < 0
     ELSE IF limit.v <= 0 THEN TRUE
     ELSE WideGe(SumOfSquares(AbsInt(deltaX.v), AbsInt(deltaY.v)),
                 SumOfSquares(limit.v, 0))

\* lines 273-279: the folded difference of the two segment bearings at index i
\* (1-based) of the path
AngleDiff(p, i) ==
  LET angle1 == calculateAngleBetweenPoints(p[i - 1], p[i])
      angle2 == calculateAngleBetweenPoints(p[i], p[i + 1])
      d == MathAbs(Sub(angle1, angle2))
  IN IF Lt(Whole(180), d) THEN Sub(Whole(360), d) ELSE d
\* mutant of IsBounce: the test written as angleDiff >= angleThreshold
IsBounce_AtLeast(p, angleThreshold, i) == Le(angleThreshold, AngleDiff(p, i))
\* line 279: the test of the interior index i
IsBounce(p, angleThreshold, i) == Lt(angleThreshold, AngleDiff(p, i))
\* the for loop of lines 265-281: the interior indices that pass the test, in
\* order
BounceIndices(p, angleThreshold) ==
  SelectSeq([i \in 1..(Len(p) - 2) |-> i + 1],
            LAMBDA i : IsBounce(p, angleThreshold, i))
getBouncePoints(p, angleThreshold) ==
  IF Len(p) < 3 THEN <<>>
  ELSE LET kept == BounceIndices(p, angleThreshold)
       IN [j \in 1..Len(kept) |-> p[kept[j]]]

\* mutant of SmoothedFrom: the last point is kept only if it is far enough
RECURSIVE SmoothedFrom_NoLast(_, _, _, _)
SmoothedFrom_NoLast(p, pointSpacing, i, lastAddedIndex) ==
  IF i > Len(p) THEN <<>>
  ELSE IF DistanceAtLeast(p[lastAddedIndex], p[i], pointSpacing)
       THEN <<p[i]>> \o SmoothedFrom_NoLast(p, pointSpacing, i + 1, i)
       ELSE SmoothedFrom_NoLast(p, pointSpacing, i + 1, lastAddedIndex)
\* the for loop of lines 245-252: i is the index under test, lastAddedIndex the
\* index of the last point kept (both 1-based)
RECURSIVE SmoothedFrom(_, _, _, _)
SmoothedFrom(p, pointSpacing, i, lastAddedIndex) ==
  IF i > Len(p) THEN <<>>
  ELSE IF DistanceAtLeast(p[lastAddedIndex], p[i], pointSpacing) \/ i = Len(p)
       THEN <<p[i]>> \o SmoothedFrom(p, pointSpacing, i + 1, i)
       ELSE SmoothedFrom(p, pointSpacing, i + 1, lastAddedIndex)
getSmoothedTrajectory(p, pointSpacing) ==
  IF Len(p) <= 2 THEN p ELSE <<p[1]>> \o SmoothedFrom(p, pointSpacing, 2, 1)

\* ------------------------------------------------------------ the utilities, called on their own
\* paths over a 3 x 2 grid of points five units apart, up to MaxPathLen points
MaxPathLen == 4
PostPoints == { [x |-> Whole(5 * i), y |-> Whole(5 * j)] : i \in 0..2, j \in 0..1 }
PostPaths == UNION { [1..n -> PostPoints] : n \in 0..MaxPathLen }
\* angleThreshold: the default 30, values around the right angle, 0, a
\* negative one and NaN
Thresholds == { Whole(30), Whole(89), Whole(90), Zero, Whole(-1), NaN }
\* pointSpacing: the default 10, a smaller one, 0 and NaN
Spacings == { Whole(10), Whole(7), Zero, NaN }

InitPost ==
  /\ NoSimulation
  /\ wall = NoWallCall /\ home = NoHome
  /\ post \in [kind : {"call"}, path : PostPaths, fn : {"none"},
               arg : {Zero}, result : {<<>>}]

\* a call getBouncePoints(path, angleThreshold)
CallBouncePoints ==
  /\ post.fn = "none"
  /\ \E angleThreshold \in Thresholds :
       post' = [post EXCEPT !.fn = "getBouncePoints",
                            !.arg = angleThreshold,
                            !.result = getBouncePoints(post.path, angleThreshold)]
  /\ UNCHANGED <<simulation, wall, home>>

\* a call getSmoothedTrajectory(path, pointSpacing)
CallSmoothed ==
  /\ post.fn = "none"
  /\ \E pointSpacing \in Spacings :
       post' = [post EXCEPT !.fn = "getSmoothedTrajectory",
                            !.arg = pointSpacing,
                            !.result = getSmoothedTrajectory(post.path, pointSpacing)]
  /\ UNCHANGED <<simulation, wall, home>>

NextPost == CallBouncePoints \/ CallSmoothed

SpecPost == InitPost /\ [][NextPost]_vars

\* ------------------------------------------------------------ getPredictedPath as one call
\* lines 62-66: the state of the call when it enters the while loop
LoopEntry(r) ==
  [p |-> <<r.origin>>, x |-> r.origin.x, y |-> r.origin.y,
   ax |-> InitialVx(r.angleInDegrees, r.force),
   ay |-> InitialVy(r.angleInDegrees, r.force),
   b |-> 0, done |-> FALSE]
\* lines 69-117: one iteration of the while loop for the request r; done marks
\* that the loop was left, by its condition or by the break
LoopStep(r, s) ==
  IF s.done THEN s
  ELSE IF ~LoopCondition(s.b, r.maxBounces, s.p) THEN [s EXCEPT !.done = TRUE]
  ELSE LET c == checkWallCollisions([x |-> s.x, y |-> s.y],
                                    [x |-> Add(s.x, Mul(s.ax, Fin(timeStep))),
                                     y |-> Add(s.y, Mul(s.ay, Fin(timeStep)))],
                                    [vx |-> s.ax, vy |-> s.ay],
                                    r.table.w, r.table.h, Fin(ballRadius))
           nvx == Mul(Restitution(c.newVelocity.vx, c.hasCollision), Fin(friction))
           nvy == Mul(Restitution(c.newVelocity.vy, c.hasCollision), Fin(friction))
       IN IF SpeedBelow(nvx, nvy, minVelocity) THEN [s EXCEPT !.done = TRUE]
          ELSE [p |-> Append(s.p, c.collisionPoint),
                x |-> c.collisionPoint.x, y |-> c.collisionPoint.y,
                ax |-> nvx, ay |-> nvy,
                b |-> IF c.hasCollision THEN s.b + 1 ELSE s.b,
                done |-> FALSE]
\* four and sixteen iterations in a row
LoopStep4(r, s) == LoopStep(r, LoopStep(r, LoopStep(r, LoopStep(r, s))))
LoopStep16(r, s) == LoopStep4(r, LoopStep4(r, LoopStep4(r, LoopStep4(r, s))))
\* the while loop run to its end
RECURSIVE RunLoop(_, _)
RunLoop(r, s) == IF s.done THEN s.p ELSE RunLoop(r, LoopStep16(r, s))
\* lines 38-120
getPredictedPath(r) ==
  IF Invalid(r.force, r.angleInDegrees) THEN <<>> ELSE RunLoop(r, LoopEntry(r))

\* ------------------------------------------------------------ HomeScreen and the cue stick
\* CueStick.tsx: RAIL_WIDTH, MAX_PULL_DISTANCE, MIN_PULL_DISTANCE
RAIL_WIDTH == 20
MAX_PULL_DISTANCE == 120
MIN_PULL_DISTANCE == 20
\* the largest d in lo..hi whose square is at most the wide number target
RECURSIVE SqrtFloor(_, _, _)
SqrtFloor(lo, hi, target) ==
  IF lo >= hi THEN lo
  ELSE LET mid == (lo + hi + 1) \div 2
       IN IF WideGe(target, Square(mid)) THEN SqrtFloor(mid, hi, target)
          ELSE SqrtFloor(lo, mid - 1, target)
\* Math.sqrt(deltaX * deltaX + deltaY * deltaY), rounded to the nearest unit
HypotOf(deltaX, deltaY) ==
  IF IsNaN(deltaX) \/ IsNaN(deltaY) THEN NaN
  ELSE IF deltaX.k = "inf" \/ deltaY.k = "inf" THEN PInf
  ELSE LET ax == AbsInt(deltaX.v)
           ay == AbsInt(deltaY.v)
           d == SqrtFloor(0, ax + ay, SumOfSquares(ax, ay))
       IN Fin(IF WideGe(SumOfSquares(2 * ax, 2 * ay), Square(2 * d + 1))
              THEN d + 1 ELSE d)
MathMax(a, b) == IF IsNaN(a) \/ IsNaN(b) THEN NaN ELSE IF Lt(a, b) THEN b ELSE a
MathMin(a, b) == IF IsNaN(a) \/ IsNaN(b) THEN NaN ELSE IF Lt(b, a) THEN b ELSE a
\* (a / n) * 100 for the even whole number n > 0 and |a| <= 200, rounded once,
\* to the nearest unit
Percent(a, n) ==
  IF a.k # "fin" THEN a
  ELSE Fin(Sgn(a.v) * ((AbsInt(a.v) * 100 + (n \div 2)) \div n))
\* calculateCueMetrics (CueStick.tsx lines 45-74) for the cue ball at
\* CUE_BALL_POSITION: the angle and the force it returns
calculateCueMetrics(touchX, touchY) ==
  LET deltaX == Sub(touchX, Add(CueBallSpot.x, Whole(RAIL_WIDTH)))
      deltaY == Sub(touchY, Add(CueBallSpot.y, Whole(RAIL_WIDTH)))
      touchDistance == HypotOf(deltaX, deltaY)
      pullDistance ==
        MathMax(Zero, MathMin(Sub(touchDistance, Whole(MIN_PULL_DISTANCE)),
                              Whole(MAX_PULL_DISTANCE)))
  IN [angle |-> Atan2Deg(deltaY, deltaX),
      force |-> Percent(pullDistance, MAX_PULL_DISTANCE)]
\* touches of the pan gesture, in the coordinates of the cue stick's view
\* (the ball's centre is at (95, 95)): on the ball, 10, 26 and 140 units below
\* it, and on the diagonal up-left of it at 10 and 100 units per axis
Touches ==
  { [x |-> Whole(95), y |-> Whole(95)],
    [x |-> Whole(95), y |-> Whole(105)],
    [x |-> Whole(95), y |-> Whole(121)],
    [x |-> Whole(95), y |-> Whole(235)],
    [x |-> Whole(85), y |-> Whole(85)],
    [x |-> Whole(-5), y |-> Whole(-5)] }
\* updateCueStick (lines 76-89): the argument of its onShotChange call
CueShot(touch) ==
  LET metrics == calculateCueMetrics(touch.x, touch.y)
  IN [force |-> metrics.force, angle |-> metrics.angle]
\* onEnd's reset
CueReset == [force |-> Zero, angle |-> Zero]
\* calls of onShotChange that runOnJS has queued for the JS thread
MaxPending == 2
\* the request handleShotChange builds (index.tsx lines 54-61)
AppRequest(force, angle) ==
  [origin |-> CueBallSpot, angleInDegrees |-> angle, force |-> force,
   table |-> [w |-> Whole(300), h |-> Whole(150)], maxBounces |-> AppMaxBounces]
\* the default angleThreshold of getBouncePoints
DefaultAngleThreshold == Whole(30)

InitHome ==
  /\ NoSimulation
  /\ wall = NoWallCall /\ post = NoPostCall
  /\ home = [kind |-> "screen",
             isDragging |-> FALSE,
             pending |-> <<>>,
             shotData |-> [force |-> Zero, angle |-> Zero],
             predictionPath |-> <<>>,
             bounceCount |-> 0,
             handled |-> <<>>]

\* panGesture.onStart (CueStick.tsx lines 92-97): updateCueStick queues onShotChange
GestureStart ==
  /\ ~home.isDragging
  /\ Len(home.pending) < MaxPending
  /\ \E touch \in Touches :
       home' = [home EXCEPT !.isDragging = TRUE,
                            !.pending = Append(@, [shot |-> CueShot(touch),
                                                   from |-> "update"])]
  /\ UNCHANGED <<simulation, wall, post>>

\* panGesture.onUpdate (lines 98-102)
GestureUpdate ==
  /\ home.isDragging
  /\ Len(home.pending) < MaxPending
  /\ \E touch \in Touches :
       home' = [home EXCEPT !.pending = Append(@, [shot |-> CueShot(touch),
                                                   from |-> "update"])]
  /\ UNCHANGED <<simulation, wall, post>>

\* panGesture.onEnd (lines 103-112)
GestureEnd ==
  /\ home.isDragging
  /\ Len(home.pending) < MaxPending
  /\ home' = [home EXCEPT !.isDragging = FALSE,
                          !.pending = Append(@, [shot |-> CueReset, from |-> "end"])]
  /\ UNCHANGED <<simulation, wall, post>>

\* mutant of HandleShotChange: the else branch resets only the bounce count
HandleShotChange_StalePath ==
  /\ home.pending # <<>>
  /\ LET e == Head(home.pending)
         c == e.shot
         trajectory == getPredictedPath(AppRequest(c.force, c.angle))
         bouncePoints == getBouncePoints(trajectory, DefaultAngleThreshold)
     IN home' = [home EXCEPT
          !.pending = Tail(@),
          !.handled = <<e>>,
          !.shotData = c,
          !.predictionPath = IF Lt(Whole(5), c.force) THEN trajectory ELSE @,
          !.bounceCount = IF Lt(Whole(5), c.force) THEN Len(bouncePoints) ELSE 0]
  /\ UNCHANGED <<simulation, wall, post>>

\* handleShotChange (index.tsx lines 43-71) for the oldest queued call
HandleShotChange ==
  /\ home.pending # <<>>
  /\ LET e == Head(home.pending)
         c == e.shot
         trajectory == getPredictedPath(AppRequest(c.force, c.angle))
         bouncePoints == getBouncePoints(trajectory, DefaultAngleThreshold)
     IN home' = [home EXCEPT
          !.pending = Tail(@),
          !.handled = <<e>>,
          !.shotData = c,
          !.predictionPath = IF Lt(Whole(5), c.force) THEN trajectory ELSE <<>>,
          !.bounceCount = IF Lt(Whole(5), c.force) THEN Len(bouncePoints) ELSE 0]
  /\ UNCHANGED <<simulation, wall, post>>

NextHome == GestureStart \/ GestureUpdate \/ GestureEnd \/ HandleShotChange

SpecHome == InitHome /\ [][NextHome]_vars

\* ------------------------------------------------------------ claims
\* force > 0 with a finite angle: the requests the validation lets through
\* that the specification calls valid
ValidRequest == Lt(Zero, req.force) /\ IsFiniteNum(req.angleInDegrees)

\* C1: whenever force <= 0 or angleInDegrees is NaN, +Infinity or -Infinity,
\* the path is empty in every state of the call, the returned one included,
\* whatever the origin, the table and maxBounces are.
C1_InvalidGivesEmptyPath ==
  (Le(req.force, Zero) \/ req.angleInDegrees \in Specials) => path = <<>>
\* a call with a usable force and a NaN angle has returned
C1_Witness ==
  /\ pc = "done"
  /\ req.force = Whole(50)
  /\ req.angleInDegrees = NaN
  /\ path = <<>>

\* C2: a non-finite force (NaN, +Infinity, -Infinity) never produces a
\* non-empty path: the returned path is empty.
C2_NonFiniteForceGivesEmptyPath ==
  (pc = "done" /\ req.force \in Specials) => path = <<>>

\* C3: for every request with force > 0 and a finite angle, once the call is
\* past the validation the path is non-empty and its first element is the
\* launch origin.
C3_PathStartsAtOrigin ==
  (pc # "start" /\ ValidRequest) =>
     (Len(path) >= 1 /\ path[1] = req.origin)
\* a call has returned a path of several points
C3_Witness ==
  /\ pc = "done"
  /\ ValidRequest
  /\ Len(path) > 1
  /\ path[1] = req.origin

\* the number of points of the path pushed by a colliding iteration
ContactPoints == Cardinality({ i \in DOMAIN hits : hits[i] })

\* C4: in every state of the call, the path has at most maxPoints points, the
\* bounces counted are at most maxBounces, and the wall-contact points recorded
\* in the path are at most the bounces counted.
C4_PathAndBouncesBounded ==
  /\ Len(path) <= maxPoints
  /\ bounces <= req.maxBounces
  /\ ContactPoints <= bounces
\* a call of finite force has bounced and then run into the point cap
C4_Witness ==
  /\ pc = "done"
  /\ IsFiniteNum(req.force)
  /\ Len(path) = maxPoints
  /\ bounces >= 1
  /\ ContactPoints = bounces

\* C5: the loop executes at most maxPoints iterations: every iteration pushes
\* one point or breaks, so the iterations executed are the points pushed after
\* the origin, plus one for the breaking iteration.
C5_LoopBounded ==
  /\ iters <= maxPoints
  /\ (pc = "loop" \/ exit = "condition") => iters = Len(path) - 1
  /\ exit = "break" => iters = Len(path)
\* a call has returned after the last iteration the point cap allows
C5_Witness ==
  /\ pc = "done"
  /\ iters = maxPoints - 1
  /\ Len(path) = maxPoints

\* ballRadius <= p.x <= tableWidth - ballRadius and
\* ballRadius <= p.y <= tableHeight - ballRadius
OnSurface(p) ==
  /\ Le(Fin(ballRadius), p.x)
  /\ Le(p.x, Sub(req.table.w, Fin(ballRadius)))
  /\ Le(Fin(ballRadius), p.y)
  /\ Le(p.y, Sub(req.table.h, Fin(ballRadius)))

\* C6: every point of the path satisfies ballRadius <= x <= tableWidth -
\* ballRadius and ballRadius <= y <= tableHeight - ballRadius.
C6_PathOnSurface == \A i \in DOMAIN path : OnSurface(path[i])

\* p and q differ as positions (!== on a coordinate; NaN differs from all)
Differs(p, q) ==
  \/ IsNaN(p.x) \/ IsNaN(q.x) \/ p.x # q.x
  \/ IsNaN(p.y) \/ IsNaN(q.y) \/ p.y # q.y

\* C7: no position repeats consecutively in the path: path[i+1] differs from
\* path[i] for every i, also when the launch origin lies on a clamp line and
\* the ball is launched into that wall.
C7_NoConsecutiveRepeat ==
  \A i \in 1..(Len(path) - 1) : Differs(path[i], path[i + 1])

\* C8: with maxBounces = 0 and a valid force and angle, the returned path is
\* straight-line motion continued step by step until the speed decays below
\* minVelocity (the break) or the point cap is reached, with no collision
\* recorded.
C8_ZeroBudgetRunsToDecayOrCap ==
  (pc = "done" /\ req.maxBounces = 0 /\ ValidRequest /\ IsFiniteNum(req.force)) =>
     /\ exit = "break" \/ Len(path) = maxPoints
     /\ bounces = 0
     /\ ContactPoints = 0

\* The three reasons of termination, read in the state the call returns in.
BudgetExhausted == bounces = req.maxBounces
PointCapReached == Len(path) = maxPoints
SpeedDecayed == SpeedBelow(vx, vy, minVelocity)
\* the call has returned from the loop (not from the validation)
Stopped == pc = "done" /\ exit # "invalid"

\* C9 as stated: when the call stops, exactly one of the three reasons holds.
C9_ExactlyOneReason ==
  Stopped =>
     /\ BudgetExhausted \/ PointCapReached \/ SpeedDecayed
     /\ ~(BudgetExhausted /\ PointCapReached)
     /\ ~(BudgetExhausted /\ SpeedDecayed)
     /\ ~(PointCapReached /\ SpeedDecayed)
\* C9 as amended: when the call stops, at least one of the three reasons
\* holds: the break leaves the speed below minVelocity, and a failed loop
\* condition leaves the bounce budget exhausted or the point cap reached.
C9_SomeReason ==
  Stopped =>
     /\ BudgetExhausted \/ PointCapReached \/ SpeedDecayed
     /\ exit = "break" => SpeedDecayed
     /\ exit = "condition" => BudgetExhausted \/ PointCapReached
\* the iteration that took the last bounce of the budget also broke on speed
C9_Witness ==
  /\ Stopped
  /\ exit = "break"
  /\ bounces >= 1
  /\ BudgetExhausted
  /\ SpeedDecayed

\* The scenario of the specification: table 300 x 150, ball radius 8, launch
\* at (75, 75), angle 0, force 50, maxBounces 8.
ScenarioRequest ==
  [origin |-> CueBallSpot, angleInDegrees |-> Whole(0), force |-> Whole(50),
   table |-> [w |-> Whole(300), h |-> Whole(150)], maxBounces |-> AppMaxBounces]
\* x = tableWidth - ballRadius of the scenario
RightClamp == Sub(Whole(300), Fin(ballRadius))

\* C10 as stated: the returned path of the scenario holds a collision with
\* the right wall: a point recorded by a colliding iteration at x = 292, after
\* which the points move leftward.
C10_ScenarioHitsRightWall ==
  (pc = "done" /\ req = ScenarioRequest) =>
     \E i \in DOMAIN path :
        /\ hits[i]
        /\ path[i].x = RightClamp
        /\ \A j \in (i + 1)..Len(path) : Lt(path[j].x, path[j - 1].x)
\* C10 as amended: the path of the scenario holds no collision. The ball
\* moves rightward along y = 75 with vx > 0, each point strictly right of the
\* one before, and every x stays below 115 = 75 + 7.5 * 0.08 / (1 - 0.985),
\* so the right clamp line x = 292 is never reached and bounces stays 0.
C10_ScenarioNeverReachesWall ==
  req = ScenarioRequest =>
     /\ bounces = 0
     /\ ContactPoints = 0
     /\ pc # "start" => Lt(Zero, vx) /\ vy = Zero
     /\ \A i \in DOMAIN path :
           /\ path[i].y = Whole(75)
           /\ Lt(path[i].x, Whole(115))
           /\ Lt(path[i].x, RightClamp)
           /\ i > 1 => Lt(path[i - 1].x, path[i].x)
\* the scenario has returned its path of more than 200 points
C10_Witness ==
  /\ pc = "done"
  /\ req = ScenarioRequest
  /\ Len(path) > 200
  /\ bounces = 0

\* C11: the scenario stops at the break, because the speed fell below
\* minVelocity, with bounces left in the budget and fewer than maxPoints
\* points in the path.
C11_ScenarioStopsByDecay ==
  (pc = "done" /\ req = ScenarioRequest) =>
     /\ exit = "break"
     /\ SpeedDecayed
     /\ bounces < req.maxBounces
     /\ Len(path) < maxPoints
\* the scenario has returned its 213 points after 213 iterations
C11_Witness ==
  /\ pc = "done"
  /\ req = ScenarioRequest
  /\ exit = "break"
  /\ iters = 213
  /\ Len(path) = 213

\* C12: in every iteration the velocity is multiplied by friction once, after
\* the branch, and by the bounce factor only when the iteration collided,
\* before the friction: a component's magnitude becomes |v| * 0.985 without a
\* collision and |v| * 0.92 * 0.985 with one (without a collision the
\* component itself is v * 0.985), and no component's magnitude increases.
C12_FrictionOncePerIteration ==
  [][ iters' = iters + 1 =>
        /\ IF bounces' = bounces + 1
           THEN /\ MathAbs(vx') =
                     Mul(Mul(MathAbs(vx), Fin(bounceEnergyLoss)), Fin(friction))
                /\ MathAbs(vy') =
                     Mul(Mul(MathAbs(vy), Fin(bounceEnergyLoss)), Fin(friction))
           ELSE /\ bounces' = bounces
                /\ vx' = Mul(vx, Fin(friction))
                /\ vy' = Mul(vy, Fin(friction))
        /\ ~Lt(MathAbs(vx), MathAbs(vx'))
        /\ ~Lt(MathAbs(vy), MathAbs(vy')) ]_vars
\* a call of finite, moving velocity has run colliding and free iterations
C12_Witness ==
  /\ pc = "loop"
  /\ bounces >= 1
  /\ iters > bounces
  /\ IsFiniteNum(vx) /\ vx # Zero
  /\ IsFiniteNum(vy) /\ vy # Zero

\* C15: an iteration whose speed after the friction is below minVelocity
\* returns without pushing its position; an iteration pushes its position
\* exactly when that speed is not below minVelocity; and nothing else changes
\* the path after the origin was pushed. So every point after the origin was
\* pushed by an iteration that passed the speed test, and the last element is
\* the position of the last such iteration.
C15_BreakLeavesPathAlone ==
  [][ /\ (iters' = iters + 1 /\ SpeedBelow(vx', vy', minVelocity)) =>
           (path' = path /\ pc' = "done")
      /\ (iters' = iters + 1 /\ ~SpeedBelow(vx', vy', minVelocity)) =>
           (path' = Append(path, [x |-> currentX', y |-> currentY']) /\ pc' = "loop")
      /\ (iters' = iters /\ pc # "start") => path' = path ]_vars
\* a call has broken on speed at a position that is not in the path
C15_Witness ==
  /\ exit = "break"
  /\ Len(path) > 1
  /\ path[Len(path)] # [x |-> currentX, y |-> currentY]
  /\ \A i \in DOMAIN path : path[i] # [x |-> currentX, y |-> currentY]

\* the proposed position of the iteration about to run
NextPos ==
  [x |-> Add(currentX, Mul(vx, Fin(timeStep))),
   y |-> Add(currentY, Mul(vy, Fin(timeStep)))]
\* a wall the iteration about to run contacts while the velocity component
\* normal to it is non-zero and points toward it
ContactsWallHeadOn ==
  \/ HitsLeft(NextPos, Fin(ballRadius)) /\ Lt(vx, Zero)
  \/ HitsRight(NextPos, req.table.w, Fin(ballRadius)) /\ Lt(Zero, vx)
  \/ HitsTop(NextPos, Fin(ballRadius)) /\ Lt(vy, Zero)
  \/ HitsBottom(NextPos, req.table.h, Fin(ballRadius)) /\ Lt(Zero, vy)

\* C19: for an origin on the playing surface (clamp lines included), an
\* iteration counts a bounce only if the velocity component normal to a wall
\* it contacts is non-zero and points toward that wall.
C19_BounceOnlyHeadOn ==
  (/\ pc = "loop"
   /\ OnSurface(req.origin)
   /\ LoopCondition(bounces, req.maxBounces, path)
   /\ StepBounces = bounces + 1) => ContactsWallHeadOn

\* the four boundary conditions of a call, as the resolver tests them
CrossedLeft(c) == Le(Sub(c.nextPos.x, c.ballRadius), Zero)
CrossedRight(c) == Ge(Add(c.nextPos.x, c.ballRadius), c.tableWidth)
CrossedTop(c) == Le(Sub(c.nextPos.y, c.ballRadius), Zero)
CrossedBottom(c) == Ge(Add(c.nextPos.y, c.ballRadius), c.tableHeight)

\* C13: checkWallCollisions resolves each axis on its own. Left or right
\* crossed: x is clamped to ballRadius or tableWidth - ballRadius and vx
\* becomes +|vx| or -|vx| (left first), whatever y and vy are; top or bottom
\* likewise for y and vy; an axis whose walls are not crossed keeps its
\* coordinate and its velocity component; a component's magnitude never
\* changes; and the result of one axis is the same for every other y input.
C13_AxesIndependent ==
  wall.result # <<>> =>
    LET r == wall.result[1]
        onlyX == checkWallCollisions(wall.currentPos,
                   [x |-> wall.nextPos.x, y |-> Whole(75)],
                   [vx |-> wall.velocity.vx, vy |-> Zero],
                   wall.tableWidth, wall.tableHeight, wall.ballRadius)
    IN /\ r.collisionPoint.x =
            (IF CrossedLeft(wall) THEN wall.ballRadius
             ELSE IF CrossedRight(wall) THEN Sub(wall.tableWidth, wall.ballRadius)
             ELSE wall.nextPos.x)
       /\ r.newVelocity.vx =
            (IF CrossedLeft(wall) THEN MathAbs(wall.velocity.vx)
             ELSE IF CrossedRight(wall) THEN Neg(MathAbs(wall.velocity.vx))
             ELSE wall.velocity.vx)
       /\ r.collisionPoint.y =
            (IF CrossedTop(wall) THEN wall.ballRadius
             ELSE IF CrossedBottom(wall) THEN Sub(wall.tableHeight, wall.ballRadius)
             ELSE wall.nextPos.y)
       /\ r.newVelocity.vy =
            (IF CrossedTop(wall) THEN MathAbs(wall.velocity.vy)
             ELSE IF CrossedBottom(wall) THEN Neg(MathAbs(wall.velocity.vy))
             ELSE wall.velocity.vy)
       /\ r.collisionPoint.x = onlyX.collisionPoint.x
       /\ r.newVelocity.vx = onlyX.newVelocity.vx
       /\ MathAbs(r.newVelocity.vx) = MathAbs(wall.velocity.vx)
       /\ MathAbs(r.newVelocity.vy) = MathAbs(wall.velocity.vy)
\* a corner contact was resolved: both coordinates clamped, both components
\* reflected
C13_Witness ==
  /\ wall.result # <<>>
  /\ CrossedRight(wall) /\ ~CrossedLeft(wall)
  /\ CrossedBottom(wall) /\ ~CrossedTop(wall)
  /\ wall.velocity = [vx |-> Whole(3), vy |-> Whole(3)]
  /\ wall.result[1].collisionPoint = [x |-> Whole(292), y |-> Whole(142)]
  /\ wall.result[1].newVelocity = [vx |-> Whole(-3), vy |-> Whole(-3)]

\* C14: a call of checkWallCollisions changes nothing but its result: the
\* argument objects keep their fields, and no bounce count, velocity or path
\* of a simulation changes; when no boundary condition holds the result is
\* hasCollision = false with the proposed point and the velocity as given.
C14_WallCheckIsPure ==
  [][ wall'.result # wall.result =>
        /\ wall'.currentPos = wall.currentPos
        /\ wall'.nextPos = wall.nextPos
        /\ wall'.velocity = wall.velocity
        /\ wall'.tableWidth = wall.tableWidth
        /\ wall'.tableHeight = wall.tableHeight
        /\ wall'.ballRadius = wall.ballRadius
        /\ bounces' = bounces /\ vx' = vx /\ vy' = vy /\ path' = path
        /\ (~CrossedLeft(wall) /\ ~CrossedRight(wall)
              /\ ~CrossedTop(wall) /\ ~CrossedBottom(wall)) =>
             wall'.result = << [hasCollision |-> FALSE,
                                collisionPoint |-> wall.nextPos,
                                newVelocity |-> wall.velocity] >> ]_vars
\* a call whose proposed point is strictly inside the surface has returned
C14_Witness ==
  /\ wall.result # <<>>
  /\ wall.nextPos = [x |-> Whole(150), y |-> Whole(75)]
  /\ wall.velocity = [vx |-> Whole(3), vy |-> Whole(-3)]
  /\ ~wall.result[1].hasCollision

\* a is b with some elements left out, the order kept
RECURSIVE IsSubsequence(_, _)
IsSubsequence(a, b) ==
  IF a = <<>> THEN TRUE
  ELSE IF b = <<>> THEN FALSE
  ELSE IF Head(a) = Head(b) THEN IsSubsequence(Tail(a), Tail(b))
  ELSE IsSubsequence(a, Tail(b))
\* the displacement of segment i of a path of whole-number points, in units
Seg(p, i) ==
  << (p[i + 1].x.v - p[i].x.v) \div Scale, (p[i + 1].y.v - p[i].y.v) \div Scale >>
SameDirection(u, v) ==
  u[1] * v[2] - u[2] * v[1] = 0 /\ u[1] * v[1] + u[2] * v[2] > 0
RightAngle(u, v) ==
  /\ u # <<0, 0>> /\ v # <<0, 0>>
  /\ u[1] * v[1] + u[2] * v[2] = 0
\* at least two points, consecutive points distinct, every segment in the
\* direction of the one before
StraightLine(p) ==
  /\ Len(p) >= 2
  /\ Seg(p, 1) # <<0, 0>>
  /\ \A i \in 1..(Len(p) - 2) : SameDirection(Seg(p, i), Seg(p, i + 1))
\* the only direction change of p is a 90-degree turn at the interior index k
SingleRightTurnAt(p, k) ==
  /\ k \in 2..(Len(p) - 1)
  /\ RightAngle(Seg(p, k - 1), Seg(p, k))
  /\ \A i \in 2..(Len(p) - 1) : i # k => SameDirection(Seg(p, i - 1), Seg(p, i))
Interior(p) == SubSeq(p, 2, Len(p) - 1)

\* C16 as stated: getBouncePoints returns nothing for a straight-line path and
\* for a path of fewer than 3 points; for a path whose only direction change
\* is a 90-degree turn at k it returns exactly <<path[k]>> whenever
\* angleThreshold < 90; it never returns the first or last point.
C16_BouncePointsAnyThreshold ==
  post.fn = "getBouncePoints" =>
    /\ (Len(post.path) < 3 \/ StraightLine(post.path)) => post.result = <<>>
    /\ \A k \in 2..(Len(post.path) - 1) :
         (SingleRightTurnAt(post.path, k) /\ Lt(post.arg, Whole(90))) =>
            post.result = <<post.path[k]>>
    /\ IsSubsequence(post.result, Interior(post.path))
\* C16: for 0 <= angleThreshold, getBouncePoints returns nothing for a
\* straight-line path; it returns nothing for a path of fewer than 3 points;
\* for a path whose only direction change is a 90-degree turn at k it returns
\* exactly <<path[k]>> whenever 0 <= angleThreshold < 90; what it returns are
\* interior points of the path, in order, never the first or the last.
C16_BouncePointsNonNegativeThreshold ==
  post.fn = "getBouncePoints" =>
    /\ Len(post.path) < 3 => post.result = <<>>
    /\ (StraightLine(post.path) /\ Le(Zero, post.arg)) => post.result = <<>>
    /\ \A k \in 2..(Len(post.path) - 1) :
         (/\ SingleRightTurnAt(post.path, k)
          /\ Le(Zero, post.arg)
          /\ Lt(post.arg, Whole(90))) =>
            post.result = <<post.path[k]>>
    /\ IsSubsequence(post.result, Interior(post.path))
\* the turn of a four-point path was returned, alone, at threshold 0
C16_Witness ==
  /\ post.fn = "getBouncePoints"
  /\ post.arg = Zero
  /\ Len(post.path) = 4
  /\ SingleRightTurnAt(post.path, 3)
  /\ post.result = <<post.path[3]>>

\* C17: getSmoothedTrajectory returns a subsequence of the path, in order and
\* no longer than it, that starts with the path's first point and ends with
\* its last; every kept point other than the first and the final one is at
\* distance >= pointSpacing from the point kept before it.
C17_SmoothedIsSpacedSubsequence ==
  post.fn = "getSmoothedTrajectory" =>
    /\ IsSubsequence(post.result, post.path)
    /\ Len(post.result) <= Len(post.path)
    /\ Len(post.path) > 0 =>
         /\ Len(post.result) > 0
         /\ post.result[1] = post.path[1]
         /\ post.result[Len(post.result)] = post.path[Len(post.path)]
    /\ \A j \in 2..(Len(post.result) - 1) :
         DistanceAtLeast(post.result[j - 1], post.result[j], post.arg)
\* a four-point path lost a point that was too close and kept a far one
C17_Witness ==
  /\ post.fn = "getSmoothedTrajectory"
  /\ post.arg = Whole(10)
  /\ Len(post.path) = 4
  /\ Len(post.result) = 3
  /\ post.result[2] # post.path[2]

\* C18: once handleShotChange has handled an event, the displayed state is a
\* function of that event alone: predictionPath is getPredictedPath of its
\* force and angle when force > 5 and empty otherwise, bounceCount is the
\* number of bounce points of that path, and after a gesture end (force 0)
\* the path is empty and bounceCount is 0.
C18_LastEventDecides ==
  home.handled # <<>> =>
    LET e == home.handled[1]
        c == e.shot
    IN /\ home.shotData = c
       /\ home.predictionPath =
            (IF Lt(Whole(5), c.force)
             THEN getPredictedPath(AppRequest(c.force, c.angle))
             ELSE <<>>)
       /\ home.bounceCount =
            Len(getBouncePoints(home.predictionPath, DefaultAngleThreshold))
       /\ e.from = "end" => (home.predictionPath = <<>> /\ home.bounceCount = 0)
\* a gesture end was handled and cleared the display while the first shot of
\* the next gesture, one that will bounce, is still queued
C18_Witness ==
  /\ home.handled # <<>>
  /\ home.handled[1].from = "end"
  /\ home.predictionPath = <<>>
  /\ home.isDragging
  /\ home.pending # <<>>
  /\ Head(home.pending).shot = [force |-> Whole(100), angle |-> Whole(90)]

====
